---- MODULE Spec2Model ----
(***************************************************************************)
(* Model of Webpage_Scraping.py: the map-gallery crawl (totalpages,        *)
(* gallery_links_visit), the entry scraper (galleryentries), the link      *)
(* validator (checklinks), the summary reducer (dictsumvalue) and the csv  *)
(* writer loop.                                                            *)
(*                                                                         *)
(* Python strings are modelled as sequences of tokens, so that split and   *)
(* concatenation are computed and not assumed: "Error" is <<"Error">>, the *)
(* empty string is << >>.  Dictionary keys of the inner dictionaries (the  *)
(* field names) are TLA+ strings.  The outer dictionary is an insertion-   *)
(* ordered sequence of [k, v] pairs, as a Python 3.7 dict is.              *)
(***************************************************************************)
EXTENDS Integers, Sequences, FiniteSets, TLC

VARIABLES pc, raised, pages, page, loads, links_to_visit, li, visited,
          gallerylinks, ci, gets, rows

vars == <<pc, raised, pages, page, loads, links_to_visit, li, visited,
          gallerylinks, ci, gets, rows>>

(* ------------------------------ bounds -------------------------------- *)
\* largest page parameter the last-page control of the index carries
MaxPg == 1
\* largest number of gallery-entry containers on one index page
MaxPerPage == 2

(* --------------------------- program constants ------------------------ *)
waittime == 5

link_values == <<"REST_Link", "AGOL_Link", "Metadata_Link", "WFS_Link", "WMS_Link",
                 "Iframe_Webmap_Link">>

error_msg == <<"Please contact your system administrator.", "Unauthorized", "Not Found",
               "Item does not exist or is inaccessible.",
               "Error occurred while processing request", "Error occurred",
               "Please contact your system administrator.">>

csv_fields == <<"gallery_entry_name", "Gallery_Link", "REST_Link", "AGOL_Link",
                "Metadata_Link", "WFS_Link", "WMS_Link", "Iframe_Webmap_Link",
                "Iframe_Webmap_ID", "PDF_Link_Text", "PDF_Download_LINK", "PDF_File_Size",
                "REST_Link_Status", "AGOL_Link_Status", "Metadata_Link_Status",
                "WFS_Link_Status", "WMS_Link_Status", "Iframe_Webmap_Link_Status",
                "Summary Status">>

\* the sentinels the script writes
Err == <<"Error">>
Active == <<"Active">>
NARaster == <<"NA-Raster">>
NoProblem == <<"No problem">>

(* ----------------------- Python values and helpers -------------------- *)
\* Python's None (an anchor without href gives get_attribute('href') = None)
None == <<"<None>">>
\* str(v)
Str(v) == IF v = None THEN <<"None">> ELSE v
\* truthiness of a value, as `x or k` tests it
Truthy(v) == v # None /\ v # << >>

\* s.split(sep) for a one-token separator: the list of the pieces of s
RECURSIVE Split(_, _)
Split(s, sep) ==
  IF \A i \in 1..Len(s) : s[i] # sep
  THEN <<s>>
  ELSE LET i == CHOOSE j \in 1..Len(s) :
                  s[j] = sep /\ \A h \in 1..(j - 1) : s[h] # sep
       IN  <<SubSeq(s, 1, i - 1)>> \o Split(SubSeq(s, i + 1, Len(s)), sep)

\* int(s) for a one-digit string; -1 stands for ValueError
Digits == <<"0", "1", "2", "3", "4", "5", "6", "7", "8", "9">>
PyInt(s) == IF Len(s) = 1 /\ \E d \in 1..Len(Digits) : Digits[d] = s[1]
          THEN (CHOOSE d \in 1..Len(Digits) : Digits[d] = s[1]) - 1
          ELSE -1
\* f"{page}"
Fmt(n) == <<Digits[n + 1]>>

\* d[k] = v on an inner dictionary
Put(d, k, v) == [x \in (DOMAIN d) \cup {k} |-> IF x = k THEN v ELSE d[x]]
\* d.get(k)
Get(d, k) == IF k \in DOMAIN d THEN d[k] ELSE None
\* d.values()
Values(d) == {d[k] : k \in DOMAIN d}
EmptyDict == [x \in {} |-> << >>]

\* the outer dictionary: position of key k, 0 when absent
KeyIdx(od, k) == IF \E i \in 1..Len(od) : od[i].k = k
                 THEN CHOOSE i \in 1..Len(od) : od[i].k = k
                 ELSE 0
\* a slip: every assignment appends, as to a list of rows
SetItemAppend(od, k, v) == Append(od, [k |-> k, v |-> v])
\* od[k] = v: an existing key keeps its place, a new key is appended
SetItem(od, k, v) ==
  IF KeyIdx(od, k) = 0
  THEN Append(od, [k |-> k, v |-> v])
  ELSE [od EXCEPT ![KeyIdx(od, k)] = [k |-> k, v |-> v]]

(* ------------------------- the web the crawl sees --------------------- *)
\* a find_element that raises NoSuchElementException
NoElem == <<"<NoSuchElementException>">>

URL == <<"https://www.cityofsalinas.org/our-government/information-center/map-gallery">>
\* a slip: the pages numbered from 1
PageURLFromOne(p) == URL \o <<"?page", "=">> \o Fmt(p + 1)
\* f"...map-gallery?page={page}"
PageURL(p) == URL \o <<"?page", "=">> \o Fmt(p)

\* gallery-entry URLs found on index pages
EntryA == <<"https://www.cityofsalinas.org", "/map/", "downtown-parking">>
EntryB == <<"https://www.cityofsalinas.org", "/map/", "zoning">>
EntryNoMap == <<"https://www.cityofsalinas.org", "/node/", "17">>

\* link targets found on entry pages
RestVec == <<"https://giswebservices/rest/services/Parking/MapServer">>
RestRas == <<"https://giswebservices/rest/services/Imagery/MapServer">>
RestGone == <<"https://giswebservices/rest/services/Removed/MapServer">>
UrlOk == <<"https://cityofsalinas.maps.arcgis.com/ok">>
UrlBroken == <<"https://cityofsalinas.maps.arcgis.com/broken">>
SrcWebmap == <<"https://cityofsalinas.maps.arcgis.com/embed?", "webmap=", "0a1b2c",
               "&extent", "-121.7,36.6">>
SrcBrokenWebmap == <<"https://cityofsalinas.maps.arcgis.com/broken?", "webmap=",
                     "ffff", "&extent", "-121.7,36.6">>
SrcNoWebmap == <<"https://cityofsalinas.maps.arcgis.com/apps/index.html", "&extent",
                 "-121.7,36.6">>

\* driver.get(url) raises InvalidArgumentException unless url is a URL
Schemes == {"https://www.cityofsalinas.org", RestVec[1], RestRas[1], RestGone[1],
            UrlOk[1], UrlBroken[1], SrcWebmap[1], SrcBrokenWebmap[1], SrcNoWebmap[1]}
InvalidArgument(url) == url = None \/ Len(url) = 0 \/ url[1] \notin Schemes

\* driver.page_source after driver.get(url): the phrases the page text contains
PageSource(url) ==
  CASE url = RestVec \o <<"/0">> -> {"Feature Layer"}
    [] url = RestRas \o <<"/0">> -> {"Raster Layer"}
    [] url[1] = RestGone[1] -> {"Error occurred while processing request", "Error occurred"}
    [] url[1] = UrlBroken[1] -> {"Item does not exist or is inaccessible."}
    [] url[1] = SrcBrokenWebmap[1] -> {"Not Found"}
    [] OTHER -> {"ArcGIS"}

(* ------------------------------ the script ---------------------------- *)
Init ==
  /\ pc = "totalpages"
  /\ raised = "none"
  /\ pages = 0
  /\ page = 0
  /\ loads = << >>
  /\ links_to_visit = << >>
  /\ li = 1
  /\ visited = << >>
  /\ gallerylinks = << >>
  /\ ci = 1
  /\ gets = << >>
  /\ rows = << >>

\* an uncaught exception ends the run
Abort(exc) == pc' = "aborted" /\ raised' = exc

\* the last-page control of the index: absent, its anchor without href, an href
\* whose parameter is no number, or the href of the last page
LastPageHref(n) == URL \o <<"?page", "=", Digits[n + 1]>>
PagerControls(maxpg) ==
  {NoElem, None, URL \o <<"?page", "=", "last">>} \cup {LastPageHref(n) : n \in 0..maxpg}

\* pages = int(totalpages(URL))
TotalPages(ctl) ==
  /\ pc = "totalpages"
  /\ loads' = Append(loads, URL)
  /\ IF ctl = NoElem
     THEN Abort("NoSuchElementException") /\ UNCHANGED pages
     ELSE LET last_page == Str(ctl)
              parts == Split(last_page, "=")
          IN  IF Len(parts) < 2
              THEN Abort("IndexError") /\ UNCHANGED pages
              ELSE IF PyInt(parts[2]) < 0
                   THEN Abort("ValueError") /\ UNCHANGED pages
                   ELSE /\ pages' = PyInt(parts[2])
                        /\ pc' = "collect"
                        /\ UNCHANGED raised
  /\ UNCHANGED <<page, links_to_visit, li, visited, gallerylinks, ci, gets, rows>>

\* the containers of one index page: each holds an anchor (its href) or none
ContainerLists(urls, most) ==
  UNION {[1..n -> urls \cup {NoElem}] : n \in 0..most}

\* links_to_visit.extend(gallery_links_visit(URL)), for page 0 and then for
\* every page of range(1, pages + 1)
GalleryLinksVisit(linkcontainers) ==
  /\ pc = "collect"
  /\ page <= pages
  /\ loads' = Append(loads, IF page = 0 THEN URL ELSE PageURL(page))
  /\ IF \E i \in 1..Len(linkcontainers) : linkcontainers[i] = NoElem
     THEN Abort("NoSuchElementException") /\ UNCHANGED <<links_to_visit, page>>
     ELSE /\ links_to_visit' = links_to_visit \o linkcontainers
          /\ page' = page + 1
          /\ pc' = IF page < pages THEN "collect"
                   ELSE IF links_to_visit \o linkcontainers = << >>
                        THEN "dictsumvalue"   \* both loops run zero times
                        ELSE "galleryentries"
          /\ UNCHANGED raised
  /\ UNCHANGED <<pages, li, visited, gallerylinks, ci, gets, rows>>

\* load_map_page(URL): driver.get, then wait up to waittime seconds for the
\* "Services Directory" link; a TimeoutException is caught and the driver is
\* returned either way, so the only effect on the run is the page load
load_map_page(log, webpage) == Append(log, webpage)

\* a try block of galleryentries that looks up one anchor and reads its href:
\* the href, or "Error" on NoSuchElementException
Extract(found) == IF found = NoElem THEN Err ELSE found

\* the three PDF fields: all three from the pane, or all three "Error" when
\* any of the lookups raises NoSuchElementException
PdfFields(d, pdf) ==
  IF pdf.found /\ pdf.size # NoElem
  THEN Put(Put(Put(d, "PDF_Link_Text", pdf.text), "PDF_Download_Link", pdf.href),
           "PDF_File_Size", pdf.size)
  ELSE Put(Put(Put(d, "PDF_Link_Text", Err), "PDF_Download_Link", Err),
           "PDF_File_Size", Err)

\* the five anchors looked up by text or pane (lines 139-168)
LinkFields(webpage, dom) ==
  Put(Put(Put(Put(Put(Put(EmptyDict,
    "Gallery_Link", webpage),
    "REST_Link", Extract(dom.rest)),
    "AGOL_Link", Extract(dom.agol)),
    "Metadata_Link", Extract(dom.meta)),
    "WFS_Link", Extract(dom.wfs)),
    "WMS_Link", Extract(dom.wms))

\* one iteration of the loop of galleryentries over links_to_visit
GalleryEntries(dom) ==
  /\ pc = "galleryentries"
  /\ li <= Len(links_to_visit)
  /\ LET webpage == links_to_visit[li]
         names == Split(webpage, "/map/")
     IN  IF Len(names) < 2
         THEN Abort("IndexError") /\ UNCHANGED <<gallerylinks, visited, li>>
         ELSE LET shortname == names[2]
                  links == LinkFields(webpage, dom)
              IN  /\ visited' = load_map_page(visited, webpage)
                  /\ IF dom.iframe = NoElem
                     THEN /\ gallerylinks' = SetItem(gallerylinks, shortname,
                               PdfFields(Put(Put(links, "Iframe_Webmap_Link", Err),
                                             "Iframe_Webmap_ID", Err), dom.pdf))
                          /\ li' = li + 1
                          /\ pc' = IF li = Len(links_to_visit) THEN "checklinks"
                                   ELSE "galleryentries"
                          /\ UNCHANGED raised
                     ELSE LET webmaplink == Split(dom.iframe, "&extent")[1]
                              ids == Split(webmaplink, "webmap=")
                              withlink == Put(links, "Iframe_Webmap_Link", webmaplink)
                          IN  IF Len(ids) < 2
                              THEN /\ gallerylinks' =
                                        SetItem(gallerylinks, shortname, withlink)
                                   /\ Abort("IndexError")
                                   /\ UNCHANGED li
                              ELSE /\ gallerylinks' = SetItem(gallerylinks, shortname,
                                        PdfFields(Put(withlink, "Iframe_Webmap_ID",
                                                      ids[2]), dom.pdf))
                                   /\ li' = li + 1
                                   /\ pc' = IF li = Len(links_to_visit)
                                            THEN "checklinks" ELSE "galleryentries"
                                   /\ UNCHANGED raised
  /\ UNCHANGED <<pages, page, loads, links_to_visit, ci, gets, rows>>

\* a slip: all() for any()
HasErrorMsgAll(page_text) == \A i \in 1..Len(error_msg) : error_msg[i] \in page_text
\* any(i in page_text for i in error_msg)
HasErrorMsg(page_text) == \E i \in 1..Len(error_msg) : error_msg[i] \in page_text

\* the status checklinks gives a link that it loaded
LinkStatus(page_text) == IF HasErrorMsg(page_text) THEN Err ELSE Active

\* id_key + "_Status"
StatusKey(id_key) == id_key \o "_Status"

\* a slip: the missing link marked like a link that loaded
MarkMissingActive(d, id_key) == Put(d, id_key \o "_Status", Active)
\* a link that galleryentries did not find gets the status "Error" (lines 217-218)
MarkMissing(d, id_key) == Put(d, StatusKey(id_key), Err)

\* a call of driver.get made by checklinks: for which record and field, on
\* which url, and whether it is the raster probe
GetCall(map_key, id_key, url, probe) ==
  [key |-> map_key, field |-> id_key, url |-> url, probe |-> probe]

\* the loop over link_values for one record, from field i on: the record, the
\* calls of driver.get, and the exception that ended the loop ("none" if none)
RECURSIVE CheckFields(_, _, _, _)
CheckFields(map_key, d, i, log) ==
  IF i > Len(link_values)
  THEN [d |-> d, log |-> log, exc |-> "none"]
  ELSE LET id_key == link_values[i]
       IN  IF d[id_key] = Err
           THEN CheckFields(map_key, MarkMissing(d, id_key), i + 1, log)
           ELSE LET url == d[id_key]
                    log2 == Append(log, GetCall(map_key, id_key, url, FALSE))
                IN  IF InvalidArgument(url)
                    THEN [d |-> d, log |-> log2, exc |-> "InvalidArgumentException"]
                    ELSE CheckFields(map_key,
                                     Put(d, StatusKey(id_key), LinkStatus(PageSource(url))),
                                     i + 1, log2)

\* a slip: the raster sentinel stored in WFS_Link alone
RasterProbeLinkOnly(map_key, d, log) ==
  IF d["WFS_Link"] = Err
  THEN LET url == Str(d["REST_Link"]) \o <<"/0">>
           log2 == Append(log, GetCall(map_key, "WFS_Link", url, TRUE))
       IN  IF InvalidArgument(url)
           THEN [d |-> Put(d, "WFS_Link_Status", Err), log |-> log2]
           ELSE IF "Raster Layer" \in PageSource(url)
                THEN [d |-> Put(d, "WFS_Link", NARaster), log |-> log2]
                ELSE [d |-> d, log |-> log2]
  ELSE [d |-> d, log |-> log]

\* the raster probe that follows the loop over link_values (lines 236-245)
RasterProbe(map_key, d, log) ==
  IF d["WFS_Link"] = Err
  THEN LET url == Str(d["REST_Link"]) \o <<"/0">>
           log2 == Append(log, GetCall(map_key, "WFS_Link", url, TRUE))
       IN  IF InvalidArgument(url)
           THEN [d |-> Put(d, "WFS_Link_Status", Err), log |-> log2]
           ELSE IF "Raster Layer" \in PageSource(url)
                THEN [d |-> Put(Put(d, "WFS_Link", NARaster),
                                "WFS_Link_Status", NARaster),
                      log |-> log2]
                ELSE [d |-> d, log |-> log2]
  ELSE [d |-> d, log |-> log]

\* one iteration of the loop of checklinks over gallerylinks.keys()
CheckLinks ==
  /\ pc = "checklinks"
  /\ ci <= Len(gallerylinks)
  /\ LET map_key == gallerylinks[ci].k
         checked == CheckFields(map_key, gallerylinks[ci].v, 1, gets)
     IN  IF checked.exc # "none"
         THEN /\ gallerylinks' = [gallerylinks EXCEPT ![ci].v = checked.d]
              /\ gets' = checked.log
              /\ Abort(checked.exc)
              /\ UNCHANGED ci
         ELSE LET probed == RasterProbe(map_key, checked.d, checked.log)
              IN  /\ gallerylinks' = [gallerylinks EXCEPT ![ci].v = probed.d]
                  /\ gets' = probed.log
                  /\ ci' = ci + 1
                  /\ pc' = IF ci = Len(gallerylinks) THEN "dictsumvalue"
                           ELSE "checklinks"
                  /\ UNCHANGED raised
  /\ UNCHANGED <<pages, page, loads, links_to_visit, li, visited, rows>>

\* a slip: the raster sentinel counted as an error
SummaryOfRasterCounts(d) ==
  IF Err \in Values(d) \/ NARaster \in Values(d) THEN Err ELSE NoProblem
\* a slip: only the six status fields scanned
SummaryOfStatusOnly(d) ==
  IF \E i \in 1..Len(link_values) : d[link_values[i] \o "_Status"] = Err
  THEN Err ELSE NoProblem

\* the value dictsumvalue stores under "Summary Status"
SummaryOf(d) == IF Err \in Values(d) THEN Err ELSE NoProblem

\* dictsumvalue(gallerylinks)
DictSumValue ==
  /\ pc = "dictsumvalue"
  /\ gallerylinks' = [i \in 1..Len(gallerylinks) |->
                        [k |-> gallerylinks[i].k,
                         v |-> Put(gallerylinks[i].v, "Summary Status",
                                   SummaryOf(gallerylinks[i].v))]]
  /\ pc' = "writecsv"
  /\ UNCHANGED <<raised, pages, page, loads, links_to_visit, li, visited, ci, gets, rows>>

CsvFieldSet == {csv_fields[i] : i \in 1..Len(csv_fields)}

\* a slip: get(field, k) for get(field) or k
CellDefaultOnly(k, d, field) == IF field \in DOMAIN d THEN d[field] ELSE k
\* gallerylinks[k].get(field) or k
Cell(k, d, field) == IF Truthy(Get(d, field)) THEN Get(d, field) ELSE k

\* the csv writer loop: one row per key of gallerylinks
WriteCsv ==
  /\ pc = "writecsv"
  /\ rows' = [i \in 1..Len(gallerylinks) |->
                [field \in CsvFieldSet |->
                   Cell(gallerylinks[i].k, gallerylinks[i].v, field)]]
  /\ pc' = "done"
  /\ UNCHANGED <<raised, pages, page, loads, links_to_visit, li, visited,
                 gallerylinks, ci, gets>>

(* ------------------------- entry pages (inputs) ----------------------- *)
\* the PDF pane of an entry page: absent, complete, its anchor text empty, or
\* without the file-size element
PdfFull == [found |-> TRUE, text |-> <<"Download PDF">>,
            href |-> <<"https://www.cityofsalinas.org", "/files/", "map.pdf">>,
            size |-> <<"2.1 MB">>]
PdfNone == [found |-> FALSE, text |-> NoElem, href |-> NoElem, size |-> NoElem]
PdfPanes == {PdfNone, PdfFull, [PdfFull EXCEPT !.text = << >>],
             [PdfFull EXCEPT !.size = NoElem]}

\* what the lookups of galleryentries can find on an entry page
AllDoms ==
  [rest : {NoElem, RestVec, RestRas, RestGone},
   agol : {NoElem, UrlOk, UrlBroken},
   meta : {NoElem, UrlOk, UrlBroken, None},
   wfs : {NoElem, UrlOk, UrlBroken},
   wms : {NoElem, UrlOk, UrlBroken},
   iframe : {NoElem, SrcWebmap, SrcBrokenWebmap, SrcNoWebmap},
   pdf : PdfPanes]

\* an entry whose six links are all present and load without an error phrase
Healthy == [rest |-> RestVec, agol |-> UrlOk, meta |-> UrlOk, wfs |-> UrlOk,
            wms |-> UrlOk, iframe |-> SrcWebmap, pdf |-> PdfFull]
\* an entry whose six links are all present and all load an error page
AllBroken == [rest |-> RestGone, agol |-> UrlBroken, meta |-> UrlBroken,
              wfs |-> UrlBroken, wms |-> UrlBroken, iframe |-> SrcBrokenWebmap,
              pdf |-> PdfFull]
\* an entry page on which none of the elements is found
Bare == [rest |-> NoElem, agol |-> NoElem, meta |-> NoElem, wfs |-> NoElem,
         wms |-> NoElem, iframe |-> NoElem, pdf |-> PdfNone]

CrawlDoms == {Healthy, Bare}
E2EDoms == {Healthy, [Healthy EXCEPT !.pdf = PdfNone],
            [Healthy EXCEPT !.iframe = SrcNoWebmap], AllBroken}

(* --------------------------- specifications --------------------------- *)
\* the whole run over a paginated index of two entries
Next ==
  \/ \E ctl \in PagerControls(MaxPg) : TotalPages(ctl)
  \/ \E cs \in ContainerLists({EntryA, EntryB}, MaxPerPage) : GalleryLinksVisit(cs)
  \/ \E dom \in CrawlDoms : GalleryEntries(dom)
  \/ CheckLinks
  \/ DictSumValue
  \/ WriteCsv

Spec == Init /\ [][Next]_vars

\* the whole run over a one-page index of at most one entry, over every entry
\* page of AllDoms
NextEntry ==
  \/ \E ctl \in PagerControls(0) : TotalPages(ctl)
  \/ \E cs \in ContainerLists({EntryA}, 1) : GalleryLinksVisit(cs)
  \/ \E dom \in AllDoms : GalleryEntries(dom)
  \/ CheckLinks
  \/ DictSumValue
  \/ WriteCsv

SpecEntry == Init /\ [][NextEntry]_vars

\* the whole run over a one-page index, over healthy and broken entries
NextE2E ==
  \/ \E ctl \in PagerControls(0) : TotalPages(ctl)
  \/ \E cs \in ContainerLists({EntryA, EntryB, EntryNoMap}, MaxPerPage) :
        GalleryLinksVisit(cs)
  \/ \E dom \in E2EDoms : GalleryEntries(dom)
  \/ CheckLinks
  \/ DictSumValue
  \/ WriteCsv

SpecE2E == Init /\ [][NextE2E]_vars

(* ------------------------------- claims ------------------------------- *)
LinkFieldSet == {link_values[i] : i \in 1..Len(link_values)}
\* the status field that belongs to each checkable link field
StatusField == [f \in LinkFieldSet |->
                  CASE f = "REST_Link" -> "REST_Link_Status"
                    [] f = "AGOL_Link" -> "AGOL_Link_Status"
                    [] f = "Metadata_Link" -> "Metadata_Link_Status"
                    [] f = "WFS_Link" -> "WFS_Link_Status"
                    [] f = "WMS_Link" -> "WMS_Link_Status"
                    [] f = "Iframe_Webmap_Link" -> "Iframe_Webmap_Link_Status"]
\* the pipeline has run galleryentries, checklinks and dictsumvalue
PipelineRan == pc \in {"writecsv", "done"}
\* the page number of an index page URL
PageNo(u) == IF u = URL THEN 0 ELSE PyInt(Split(u, "=")[2])
\* the short names of the collected entry URLs
ShortNames == {Split(links_to_visit[i], "/map/")[2] : i \in 1..Len(links_to_visit)}

\* C1: after the full pipeline, every record has a key for every one of the
\* 19 column names of csv_fields.
C1_EverySchemaFieldDefined ==
  PipelineRan =>
    \A i \in 1..Len(gallerylinks) : CsvFieldSet \subseteq DOMAIN gallerylinks[i].v

\* C6 as stated: with last-page parameter N, the page loads of totalpages and
\* gallery_links_visit are exactly pages 0..N, in increasing order, each once.
C6_NoIndexPageLoadedTwice ==
  pc \in {"galleryentries", "checklinks", "dictsumvalue", "writecsv", "done"} =>
    /\ Len(loads) = pages + 1
    /\ \A i \in 1..Len(loads) : PageNo(loads[i]) = i - 1

\* C6 amended: gallery_links_visit loads exactly pages 0..N, in increasing
\* order, each once, after totalpages has loaded page 0 itself: page 0 is
\* loaded twice and N + 2 index pages are loaded in all.
C6_PagesVisitedInOrder ==
  pc \in {"galleryentries", "checklinks", "dictsumvalue", "writecsv", "done"} =>
    /\ Len(loads) = pages + 2
    /\ loads[1] = URL
    /\ loads[2] = URL
    /\ \A i \in 2..Len(loads) : PageNo(loads[i]) = i - 2
    /\ \A i \in 3..Len(loads) : loads[i] = URL \o <<"?page", "=", Digits[i - 1]>>

C6_Witness ==
  /\ pc = "galleryentries"
  /\ pages >= 1
  /\ Len(loads) = pages + 2

\* C8: once totalpages has succeeded, no condition met while crawling aborts
\* the run: the only fatal condition is the one raised inside totalpages.
C8_OnlyPaginationIsFatal ==
  pc = "aborted" => Len(loads) = 1

\* C9 as stated: the report has one row per collected entry URL.
C9_OneRowPerCollectedUrl ==
  pc = "done" => Len(rows) = Len(links_to_visit)

\* C9 amended: every collected entry URL is scraped, duplicates included, but
\* the report has one row per distinct short name of the collected URLs, in
\* the order in which the short names were first scraped.
C9_OneRowPerShortName ==
  pc = "done" =>
    /\ visited = links_to_visit
    /\ Len(rows) = Cardinality(ShortNames)
    /\ Len(rows) = Len(gallerylinks)
    /\ \A i \in 1..Len(rows) :
         /\ rows[i]["gallery_entry_name"] = gallerylinks[i].k
         /\ gallerylinks[i].k \in ShortNames
         /\ \A j \in 1..Len(rows) : gallerylinks[i].k = gallerylinks[j].k => i = j

\* the same two entries collected from index page 0 and again from page 1
C9_Witness ==
  /\ pc = "done"
  /\ pages = 1
  /\ links_to_visit = <<EntryA, EntryB, EntryA, EntryB>>
  /\ Len(visited) = 4
  /\ Len(rows) = 2

\* the record checklinks is about to check, and the same record after the step
Before == gallerylinks[ci].v
After == gallerylinks'[ci].v
\* the calls of driver.get the step makes
NewGets == SubSeq(gets', Len(gets) + 1, Len(gets'))
\* a step of checklinks that checks one record to the end
CheckedOne == pc = "checklinks" /\ pc' # "aborted"
\* the url of the raster probe of a record
ProbeUrl(d) == (IF d["REST_Link"] = None THEN <<"None">> ELSE d["REST_Link"]) \o <<"/0">>
\* the page at url is loaded and holds the raster marker
RasterAt(url) == ~InvalidArgument(url) /\ "Raster Layer" \in PageSource(url)
\* the page text holds one of the known error phrases
Broken(page_text) ==
  page_text \cap {"Please contact your system administrator.", "Unauthorized",
                  "Not Found", "Item does not exist or is inaccessible.",
                  "Error occurred while processing request", "Error occurred"} # {}
HasStatus(d, f, st) == StatusField[f] \in DOMAIN d /\ d[StatusField[f]] = st

\* C2 as stated: for each of the six link fields, WFS included, an absent
\* link ends with status Error and no page is loaded on its behalf (a call of
\* driver.get that the browser rejects loads no page).
C2_AbsentIsErrorWithoutLoad ==
  [][CheckedOne =>
       \A f \in LinkFieldSet :
         Before[f] = Err =>
           /\ HasStatus(After, f, Err)
           /\ \A n \in 1..Len(NewGets) :
                NewGets[n].field = f => InvalidArgument(NewGets[n].url)]_vars

\* C2 amended: for REST, AGOL, Metadata, WMS and the iframe link, an absent
\* link ends with status Error and no driver.get is made on its behalf.  For
\* an absent WFS link the loop makes no driver.get either, but the raster
\* probe makes exactly one, of <REST_Link>/0, and the status ends NA-Raster
\* when that page holds the raster marker and Error otherwise.
C2_AbsentIsErrorExceptRasterProbe ==
  [][CheckedOne =>
       \A f \in LinkFieldSet :
         Before[f] = Err =>
           IF f # "WFS_Link"
           THEN /\ HasStatus(After, f, Err)
                /\ \A n \in 1..Len(NewGets) : NewGets[n].field # f
           ELSE /\ HasStatus(After, f, IF RasterAt(ProbeUrl(Before)) THEN NARaster ELSE Err)
                /\ Cardinality({n \in 1..Len(NewGets) : NewGets[n].field = f}) = 1
                /\ NewGets[Len(NewGets)] =
                     [key |-> gallerylinks[ci].k, field |-> f,
                      url |-> ProbeUrl(Before), probe |-> TRUE]]_vars

\* a raster service without WFS link and without AGOL link has been checked
C2_Witness ==
  /\ pc = "dictsumvalue"
  /\ \E i \in 1..Len(gallerylinks) :
       /\ gallerylinks[i].v["WFS_Link"] = NARaster
       /\ gallerylinks[i].v["WFS_Link_Status"] = NARaster
       /\ gallerylinks[i].v["AGOL_Link"] = Err
       /\ gallerylinks[i].v["AGOL_Link_Status"] = Err
       /\ \E n \in 1..Len(gets) : gets[n].probe /\ gets[n].key = gallerylinks[i].k

\* C3: when the WFS field is Error, checklinks calls driver.get on
\* <REST_Link>/0, after the calls for the six fields; when that page holds the
\* raster marker, WFS_Link and WFS_Link_Status both become NA-Raster, else
\* WFS_Link_Status stays Error (and WFS_Link stays Error).  Only sub-layer 0
\* is probed, once, and a record whose WFS field is not Error is not probed.
C3_RasterProbe ==
  [][CheckedOne =>
       LET probes == {n \in 1..Len(NewGets) : NewGets[n].probe}
       IN  IF Before["WFS_Link"] = Err
           THEN /\ probes = {Len(NewGets)}
                /\ NewGets[Len(NewGets)].url = ProbeUrl(Before)
                /\ NewGets[Len(NewGets)].key = gallerylinks[ci].k
                /\ IF RasterAt(ProbeUrl(Before))
                   THEN /\ After["WFS_Link"] = NARaster
                        /\ HasStatus(After, "WFS_Link", NARaster)
                   ELSE /\ After["WFS_Link"] = Err
                        /\ HasStatus(After, "WFS_Link", Err)
           ELSE /\ probes = {}
                /\ After["WFS_Link"] = Before["WFS_Link"]
                /\ ~HasStatus(After, "WFS_Link", NARaster)]_vars

\* checklinks has probed a record without WFS link whose REST service is a raster
C3_Witness ==
  /\ pc = "dictsumvalue"
  /\ \E i \in 1..Len(gallerylinks) :
       /\ gallerylinks[i].v["WFS_Link"] = NARaster
       /\ gallerylinks[i].v["REST_Link"] = RestRas
       /\ gets[Len(gets)] = [key |-> gallerylinks[i].k, field |-> "WFS_Link",
                             url |-> RestRas \o <<"/0">>, probe |-> TRUE]

\* C10: after checklinks has checked a record, each of its six link fields
\* has (value, status) = (Error, Error) when the link was not found, (the
\* extracted url, Error) when the page loaded from it holds a known error
\* phrase, (the extracted url, Active) when it holds none, or, for WFS only,
\* (NA-Raster, NA-Raster); and checklinks changes no value that galleryentries
\* stored, other than WFS_Link.
C10_ThreeWayClassification ==
  [][CheckedOne =>
       /\ \A f \in LinkFieldSet :
            \/ /\ Before[f] = Err
               /\ After[f] = Err
               /\ HasStatus(After, f, Err)
            \/ /\ Before[f] # Err
               /\ After[f] = Before[f]
               /\ Broken(PageSource(Before[f]))
               /\ HasStatus(After, f, Err)
            \/ /\ Before[f] # Err
               /\ After[f] = Before[f]
               /\ ~Broken(PageSource(Before[f]))
               /\ HasStatus(After, f, Active)
            \/ /\ f = "WFS_Link"
               /\ Before[f] = Err
               /\ After[f] = NARaster
               /\ HasStatus(After, f, NARaster)
       /\ \A k \in DOMAIN Before : k # "WFS_Link" => After[k] = Before[k]
       /\ DOMAIN After = DOMAIN Before \cup {StatusField[f] : f \in LinkFieldSet}]_vars

\* checklinks has checked a record that shows three of the classes at once
C10_Witness ==
  /\ pc = "dictsumvalue"
  /\ \E i \in 1..Len(gallerylinks) :
       LET d == gallerylinks[i].v
       IN  /\ d["REST_Link"] = RestGone /\ d["REST_Link_Status"] = Err
           /\ d["AGOL_Link"] = UrlOk /\ d["AGOL_Link_Status"] = Active
           /\ d["WMS_Link"] = Err /\ d["WMS_Link_Status"] = Err
           /\ d["Iframe_Webmap_Link"] # Err /\ d["Iframe_Webmap_Link_Status"] = Err

\* the fields of a record other than Summary Status
Scanned(d) == DOMAIN d \ {"Summary Status"}

\* C4: after dictsumvalue, Summary Status is Error exactly when some other
\* field or status of the record is Error, and No problem otherwise; the
\* raster sentinel does not count as Error.
C4_SummaryIffSomeError ==
  PipelineRan =>
    \A i \in 1..Len(gallerylinks) :
      LET d == gallerylinks[i].v
      IN  /\ "Summary Status" \in DOMAIN d
          /\ d["Summary Status"] \in {Err, NoProblem}
          /\ d["Summary Status"] = Err <=> \E k \in Scanned(d) : d[k] = Err
          /\ ( /\ d["WFS_Link_Status"] = NARaster
               /\ \A f \in LinkFieldSet \ {"WFS_Link"} : d[StatusField[f]] = Active
               /\ \A k \in Scanned(d) : d[k] # Err )
             => d["Summary Status"] = NoProblem

\* a raster entry, five statuses Active and WFS NA-Raster, summed No problem
C4_Witness ==
  /\ PipelineRan
  /\ \E i \in 1..Len(gallerylinks) :
       LET d == gallerylinks[i].v
       IN  /\ d["WFS_Link_Status"] = NARaster
           /\ \A f \in LinkFieldSet \ {"WFS_Link"} : d[StatusField[f]] = Active
           /\ d["Summary Status"] = NoProblem

\* a field that holds no extracted value: no key of that name, None, the empty
\* string, or the absent marker
Absent(d, field) == field \notin DOMAIN d \/ d[field] \in {None, << >>, Err}

\* C5 as stated: a cell holds the field's value when the field is present and
\* the record's key when it is absent; an entry whose PDF attachment was not
\* found has its key in the PDF_Link_Text cell.
C5_AbsentFieldShowsKey ==
  pc = "done" =>
    \A i \in 1..Len(rows) : \A field \in CsvFieldSet :
      LET k == gallerylinks[i].k
          d == gallerylinks[i].v
      IN  rows[i][field] = IF Absent(d, field) THEN k ELSE d[field]

\* C5 amended: the report has one row per record; a cell holds the value the
\* record has under exactly that column name when there is one and it is
\* neither None nor the empty string, and the record's key otherwise.  The
\* absent marker is such a value: an entry whose PDF attachment was not found
\* has Error, not its key, in the PDF_Link_Text cell.
C5_FalsyFieldShowsKey ==
  pc = "done" =>
    /\ Len(rows) = Len(gallerylinks)
    /\ \A i \in 1..Len(rows) :
         LET k == gallerylinks[i].k
             d == gallerylinks[i].v
         IN  /\ DOMAIN rows[i] = CsvFieldSet
             /\ \A field \in CsvFieldSet :
                  IF field \in DOMAIN d /\ d[field] # None /\ d[field] # << >>
                  THEN rows[i][field] = d[field]
                  ELSE rows[i][field] = k
             /\ d["PDF_Link_Text"] = Err => rows[i]["PDF_Link_Text"] = Err

\* a written row of an entry without PDF attachment
C5_Witness ==
  /\ pc = "done"
  /\ \E i \in 1..Len(rows) :
       /\ gallerylinks[i].k = <<"downtown-parking">>
       /\ gallerylinks[i].v["PDF_Link_Text"] = Err
       /\ rows[i]["PDF_Link_Text"] = Err
       /\ rows[i]["gallery_entry_name"] = <<"downtown-parking">>

\* a written row of an entry whose PDF anchor has no text
C5_WitnessEmptyText ==
  /\ pc = "done"
  /\ \E i \in 1..Len(rows) :
       /\ gallerylinks[i].v["PDF_Link_Text"] = << >>
       /\ rows[i]["PDF_Link_Text"] = gallerylinks[i].k

\* one index page with two distinct entries: the first with its six links
\* found and each loading without error phrase, the second with its six links
\* found and each loading an error page
TwoEntryGallery ==
  /\ pc = "done"
  /\ pages = 0
  /\ Len(links_to_visit) = 2
  /\ links_to_visit[1] # links_to_visit[2]
  /\ Len(gallerylinks) = 2
  /\ \A f \in LinkFieldSet :
       /\ gallerylinks[1].v[f] # Err
       /\ gallerylinks[1].v[StatusField[f]] = Active
       /\ gallerylinks[2].v[f] # Err
       /\ gallerylinks[2].v[StatusField[f]] = Err

C7_WitnessWithPdf ==
  /\ TwoEntryGallery
  /\ rows[1]["Summary Status"] = NoProblem

====
